---- MODULE Spec2Model ----
(***************************************************************************)
(* Model of astrbot_plugin_logger (src/main.py): the LoggerPlugin's        *)
(* lifecycle, its two command handlers (log, logfind) and the pure helpers *)
(* they call (_slice_logs, _format_log, _filter_logs_by_level,             *)
(* LogLevel.from_input).                                                   *)
(*                                                                         *)
(* A Python str is a sequence of one-character strings; the escape         *)
(* character \x1b is the token "ESC", the backtick the token "BQ".  A log record is a function whose    *)
(* domain is a subset of {"level", "data"} (a dict that may lack a key).   *)
(* Characters are ASCII: letters, digits, punctuation, whitespace.         *)
(***************************************************************************)
EXTENDS Integers, Sequences, FiniteSets, TLC

VARIABLES
    style,        \* self.style: "unset" (None) or "loaded"
    phase,        \* "constructed" | "ready": whether initialize() has run
    log_limit,    \* self.conf["log_limit"]
    buffer,       \* the host's in-memory log buffer (context.get_logs())
    cmd,          \* the operation that ran last ("none" before any)
    argLevel,     \* on_log: level argument
    argLimit,     \* on_log / _slice_logs: limit argument
    argKeyword,   \* on_log_search: keyword argument
    getFailed,    \* whether context.get_logs() raised in the last request
    raw,          \* logs as returned by _safe_get_logs()
    filtered,     \* logs after _filter_logs_by_level
    selected,     \* logs after _slice_logs / the matched list of logfind
    formatted,    \* the list of _format_log results
    markup,       \* the text handed to _t2i
    renderCalls,  \* number of _t2i calls made by the last request
    renderOutcome,\* what _t2i did: "none" | "ok" | "uninitialized" | "failed"
    replies,      \* the results the handler yielded, in order
    raised        \* the exception that left the handler ("none" if none)

vars == <<style, phase, log_limit, buffer, cmd, argLevel, argLimit, argKeyword,
          getFailed, raw, filtered, selected, formatted, markup, renderCalls,
          renderOutcome, replies, raised>>

(***************************************************************************)
(* Bounds of the model.                                                    *)
(***************************************************************************)
MaxTotal == 10      \* longest record sequence given to _slice_logs
MaxLimitLen == 3    \* longest generated limit string
MaxLogLimit == 2    \* largest configured log_limit
MaxDataLen == 4     \* longest generated record data string
MaxLogs == 3        \* longest host log buffer in the command model
MaxFilterLen == 3   \* longest record sequence given to _filter_logs_by_level

(***************************************************************************)
(* Python str helpers.                                                     *)
(***************************************************************************)
ESC == "ESC"

Digits == {"0", "1", "2", "3", "4", "5", "6", "7", "8", "9"}

Whitespace == {" ", "\t", "\n", "\r"}

Min(a, b) == IF a < b THEN a ELSE b

Max(a, b) == IF a > b THEN a ELSE b

StringsUpTo(alphabet, n) == UNION {[1..k -> alphabet] : k \in 0..n}

DigitValue(c) ==
    CASE c = "0" -> 0 [] c = "1" -> 1 [] c = "2" -> 2 [] c = "3" -> 3
      [] c = "4" -> 4 [] c = "5" -> 5 [] c = "6" -> 6 [] c = "7" -> 7
      [] c = "8" -> 8 [] c = "9" -> 9

\* str.isdigit(): non-empty and every character a digit
IsDigit(s) == Len(s) > 0 /\ \A i \in 1..Len(s) : s[i] \in Digits

\* int(s) for a digit string
RECURSIVE ToInt(_)
ToInt(s) ==
    IF Len(s) = 0 THEN 0
    ELSE 10 * ToInt(SubSeq(s, 1, Len(s) - 1)) + DigitValue(s[Len(s)])

\* str.rstrip(): drop trailing whitespace
RECURSIVE RStrip(_)
RStrip(s) ==
    IF Len(s) > 0 /\ s[Len(s)] \in Whitespace
    THEN RStrip(SubSeq(s, 1, Len(s) - 1))
    ELSE s

\* str.lstrip(): drop leading whitespace
RECURSIVE LStrip(_)
LStrip(s) ==
    IF Len(s) > 0 /\ s[1] \in Whitespace THEN LStrip(Tail(s)) ELSE s

\* str.strip()
Strip(s) == RStrip(LStrip(s))

\* "-" in s
HasDash(s) == \E i \in 1..Len(s) : s[i] = "-"

\* s.split("-", 1) for a string that contains "-": cut at the first "-"
FirstDash(s) == CHOOSE i \in 1..Len(s) : s[i] = "-" /\ \A j \in 1..(i - 1) : s[j] # "-"

SplitLeft(s) == SubSeq(s, 1, FirstDash(s) - 1)

SplitRight(s) == SubSeq(s, FirstDash(s) + 1, Len(s))

\* Python's normalisation of a slice index against a length
NormIdx(i, len) == IF i < 0 THEN Max(i + len, 0) ELSE Min(i, len)

\* seq[start:stop]
PySlice(seq, start, stop) ==
    SubSeq(seq, NormIdx(start, Len(seq)) + 1, NormIdx(stop, Len(seq)))

\* seq[-n:]  (the start index is the integer -n; -0 is 0)
PyTail(seq, n) == PySlice(seq, 0 - n, Len(seq))

(***************************************************************************)
(* LoggerPlugin._slice_logs                                                *)
(***************************************************************************)
\* a range whose left bound is taken as 0-based (the "- 1" forgotten)
SliceRangeZeroBased(logs, limit) ==
    LET total == Len(logs)
        left  == SplitLeft(limit)
        right == SplitRight(limit)
        start0 == IF IsDigit(left) THEN ToInt(left) ELSE 0
        end0   == IF IsDigit(right) THEN ToInt(right) ELSE total
    IN  PySlice(logs, Max(start0, 0), Min(end0, total))

SliceRange(logs, limit) ==
    LET total == Len(logs)
        left  == SplitLeft(limit)
        right == SplitRight(limit)
        start0 == IF IsDigit(left) THEN ToInt(left) - 1 ELSE 0
        end0   == IF IsDigit(right) THEN ToInt(right) ELSE total
        start == Max(start0, 0)
        end   == Min(end0, total)
    IN  PySlice(logs, start, end)

\* a fallback that ignores default_limit and returns every record
SliceLogsFallbackAll(logs, limit, default_limit) ==
    IF Len(limit) = 0 THEN logs
    ELSE LET lim == Strip(limit)
         IN  IF IsDigit(lim) THEN PyTail(logs, ToInt(lim))
             ELSE IF HasDash(lim) THEN SliceRange(logs, lim)
             ELSE logs

_slice_logs(logs, limit, default_limit) ==
    IF Len(limit) = 0 THEN PyTail(logs, default_limit)
    ELSE LET lim == Strip(limit)
         IN  IF IsDigit(lim) THEN PyTail(logs, ToInt(lim))
             ELSE IF HasDash(lim) THEN SliceRange(logs, lim)
             ELSE PyTail(logs, default_limit)

(***************************************************************************)
(* Inputs of the _slice_logs study.                                        *)
(***************************************************************************)
INFO == <<"I", "N", "F", "O">>

\* the i-th record of a numbered sequence: all records differ
NumRec(i) == [level |-> INFO, data |-> [k \in 1..i |-> "a"]]

Numbered(n) == [i \in 1..n |-> NumRec(i)]

LimitAlphabet == {"0", "1", "2", "3", "5", "-", "x", " "}

LimitExtras == {<<"1", "-", "2", "-", "3">>, <<" ", "2", "-", "5", " ">>,
                <<"1", "0", "-", "1", "2">>, <<"w", "o", "r", "d">>}

LimitStrings == StringsUpTo(LimitAlphabet, MaxLimitLen) \cup LimitExtras

Idle ==
    /\ style = "unset" /\ phase = "constructed" /\ cmd = "none"
    /\ argLevel = <<>> /\ argKeyword = <<>> /\ getFailed = FALSE
    /\ raw = <<>> /\ filtered = <<>> /\ selected = <<>> /\ formatted = <<>>
    /\ markup = <<>> /\ renderCalls = 0 /\ renderOutcome = "none"
    /\ replies = <<>> /\ raised = "none"

InitSlice ==
    /\ Idle
    /\ buffer \in {Numbered(n) : n \in 0..MaxTotal}
    /\ argLimit \in LimitStrings
    /\ log_limit \in 1..MaxLogLimit

SliceLogs ==
    /\ cmd = "none"
    /\ cmd' = "_slice_logs"
    /\ selected' = _slice_logs(buffer, argLimit, log_limit)
    /\ UNCHANGED <<style, phase, log_limit, buffer, argLevel, argLimit, argKeyword,
                   getFailed, raw, filtered, formatted, markup, renderCalls,
                   renderOutcome, replies, raised>>

NextSlice == SliceLogs

SpecSlice == InitSlice /\ [][NextSlice]_vars

(***************************************************************************)
(* Properties of _slice_logs (checked under SpecSlice).                    *)
(***************************************************************************)
Sliced == cmd = "_slice_logs"

\* seq is exactly the last n elements of all, in order (n <= Len(all))
IsLast(seq, all, n) ==
    /\ Len(seq) = n
    /\ \A k \in 1..n : seq[k] = all[Len(all) - n + k]

\* seq is exactly all[lo..hi) in 0-based terms, empty when lo >= hi
IsRange(seq, all, lo, hi) ==
    /\ Len(seq) = IF lo >= hi THEN 0 ELSE hi - lo
    /\ \A k \in 1..Len(seq) : seq[k] = all[lo + k]

DashCount(s) == Cardinality({i \in 1..Len(s) : s[i] = "-"})

Clamp(i, total) == IF i < 0 THEN 0 ELSE IF i > total THEN total ELSE i

\* C2: a limit that is a plain non-negative integer N (N = 0 and N > total
\* included) makes _slice_logs return exactly the last min(N, total) records
\* in their original order.
C2_LastN ==
    (Sliced /\ IsDigit(argLimit)) =>
        IsLast(selected, buffer, Min(ToInt(argLimit), Len(buffer)))

\* C3: for a limit (surrounding whitespace stripped, as the code does before
\* it looks at the string) of the form left-right with a single "-":
\* start = int(left) - 1 if left is a digit string else 0, end = int(right) if
\* right is a digit string else total, both clamped into [0, total], and the
\* result is exactly records[start..end), empty when start >= end.  In
\* particular "-3" gives the FIRST min(3, total) records and "2-5" on 10
\* records gives the records at 0-based indices 1, 2, 3, 4.
C3_Range ==
    LET lim   == Strip(argLimit)
        total == Len(buffer)
    IN  /\ (Sliced /\ DashCount(lim) = 1) =>
              LET p     == CHOOSE i \in 1..Len(lim) : lim[i] = "-"
                  left  == SubSeq(lim, 1, p - 1)
                  right == SubSeq(lim, p + 1, Len(lim))
                  start == Clamp(IF IsDigit(left) THEN ToInt(left) - 1 ELSE 0, total)
                  end   == Clamp(IF IsDigit(right) THEN ToInt(right) ELSE total, total)
              IN  IsRange(selected, buffer, start, end)
        /\ (Sliced /\ argLimit = <<"-", "3">>) =>
              selected = SubSeq(buffer, 1, Min(3, total))
        /\ (Sliced /\ argLimit = <<"2", "-", "5">> /\ total = 10) =>
              selected = <<buffer[2], buffer[3], buffer[4], buffer[5]>>

C3_Witness ==
    /\ Sliced /\ argLimit = <<"2", "-", "5">> /\ Len(buffer) = 10
    /\ selected = <<NumRec(2), NumRec(3), NumRec(4), NumRec(5)>>

\* C4 as stated: a limit that is non-empty, not a plain non-negative integer
\* and not two parts separated by a single "-" (a word, or a string with two
\* or more "-") makes _slice_logs return the last min(default, total)
\* records.  The limit is judged after surrounding whitespace is stripped,
\* the reading most favourable to the statement.
C4_MalformedFallsBack ==
    LET lim == Strip(argLimit)
    IN  (Sliced /\ Len(argLimit) > 0 /\ ~IsDigit(lim) /\ DashCount(lim) # 1) =>
            IsLast(selected, buffer, Min(log_limit, Len(buffer)))

\* C4 amended: the empty limit, and every limit whose stripped form is not a
\* digit string and contains no "-", give the last min(default, total)
\* records; a limit with two or more "-" is not malformed: it is cut at its
\* first "-" and served as a range whose right part, holding a "-", is no
\* digit string, so the result is records[start..total).
C4_Fallback ==
    LET lim   == Strip(argLimit)
        total == Len(buffer)
    IN  /\ (Sliced /\ (Len(argLimit) = 0 \/ (~IsDigit(lim) /\ DashCount(lim) = 0))) =>
              IsLast(selected, buffer, Min(log_limit, total))
        /\ (Sliced /\ DashCount(lim) >= 2) =>
              LET p     == CHOOSE i \in 1..Len(lim) :
                               lim[i] = "-" /\ \A j \in 1..(i - 1) : lim[j] # "-"
                  left  == SubSeq(lim, 1, p - 1)
                  start == Clamp(IF IsDigit(left) THEN ToInt(left) - 1 ELSE 0, total)
              IN  IsRange(selected, buffer, start, total)

C4_Witness ==
    /\ Sliced /\ argLimit = <<"w", "o", "r", "d">> /\ Len(buffer) = 10
    /\ log_limit = 2 /\ selected = <<NumRec(9), NumRec(10)>>

(***************************************************************************)
(* LoggerPlugin._format_log                                                *)
(***************************************************************************)
LowerLetters == <<"a", "b", "c", "d", "e", "f", "g", "h", "i", "j", "k", "l", "m",
                  "n", "o", "p", "q", "r", "s", "t", "u", "v", "w", "x", "y", "z">>

UpperLetters == <<"A", "B", "C", "D", "E", "F", "G", "H", "I", "J", "K", "L", "M",
                  "N", "O", "P", "Q", "R", "S", "T", "U", "V", "W", "X", "Y", "Z">>

LowerToUpper ==
    [c \in {LowerLetters[i] : i \in 1..26} |->
        UpperLetters[CHOOSE i \in 1..26 : LowerLetters[i] = c]]

UpperToLower ==
    [c \in {UpperLetters[i] : i \in 1..26} |->
        LowerLetters[CHOOSE i \in 1..26 : UpperLetters[i] = c]]

UpperChar(c) == IF c \in DOMAIN LowerToUpper THEN LowerToUpper[c] ELSE c

LowerChar(c) == IF c \in DOMAIN UpperToLower THEN UpperToLower[c] ELSE c

\* str.upper()
Upper(s) == [i \in 1..Len(s) |-> UpperChar(s[i])]

\* str.lower()
Lower(s) == [i \in 1..Len(s) |-> LowerChar(s[i])]

\* LogLevel member values
ALL == <<"A", "L", "L">>

DEBUG == <<"D", "E", "B", "U", "G">>

WARNING == <<"W", "A", "R", "N", "I", "N", "G">>

ERROR == <<"E", "R", "R", "O", "R">>

UNKNOWN == <<"U", "N", "K", "N", "O", "W", "N">>

\* dict.get(key, default)
Get(log, key, default) == IF key \in DOMAIN log THEN log[key] ELSE default

\* the characters of the class [0-9;]
AnsiParam == Digits \cup {";"}

\* how many characters from position i on belong to [0-9;] (the greedy star)
RECURSIVE ParamRun(_, _)
ParamRun(s, i) ==
    IF i <= Len(s) /\ s[i] \in AnsiParam THEN 1 + ParamRun(s, i + 1) ELSE 0

\* length of the match of \x1b\[[0-9;]*m at the start of s, 0 if none
AnsiMatchLen(s) ==
    IF Len(s) >= 3 /\ s[1] = ESC /\ s[2] = "["
    THEN LET k == ParamRun(s, 3)
         IN  IF 3 + k <= Len(s) /\ s[3 + k] = "m" THEN 3 + k ELSE 0
    ELSE 0

\* ansi.sub("", s): every match, found left to right, is dropped
RECURSIVE StripAnsi(_)
StripAnsi(s) ==
    IF Len(s) = 0 THEN <<>>
    ELSE LET n == AnsiMatchLen(s)
         IN  IF n > 0 THEN StripAnsi(SubSeq(s, n + 1, Len(s)))
             ELSE <<s[1]>> \o StripAnsi(Tail(s))

\* the backtick is the token "BQ"
BQ == "BQ"

Fence == <<BQ, BQ, BQ>>

\* the level is matched as it is written, without upper()
FormatLogCaseSensitive(log) ==
    LET text  == RStrip(StripAnsi(Get(log, "data", <<>>)))
        level == Get(log, "level", UNKNOWN)
    IN  IF level = ERROR THEN Fence \o <<"\n">> \o text \o <<"\n">> \o Fence
        ELSE IF level = WARNING THEN <<"*", "*">> \o text \o <<"*", "*">>
        ELSE IF level = DEBUG THEN text
        ELSE <<">", " ">> \o text

_format_log(log) ==
    LET text  == RStrip(StripAnsi(Get(log, "data", <<>>)))
        level == Upper(Get(log, "level", UNKNOWN))
    IN  IF level = ERROR THEN Fence \o <<"\n">> \o text \o <<"\n">> \o Fence
        ELSE IF level = WARNING THEN <<"*", "*">> \o text \o <<"*", "*">>
        ELSE IF level = DEBUG THEN text
        ELSE <<">", " ">> \o text

(***************************************************************************)
(* Inputs of the _format_log study.                                        *)
(***************************************************************************)
DataAlphabet == {ESC, "[", "3", ";", "m", "a", " "}

\* "\x1b[31mboom\x1b[0m" and "careful "
BoomData == <<ESC, "[", "3", "1", "m", "b", "o", "o", "m", ESC, "[", "0", "m">>

CarefulData == <<"c", "a", "r", "e", "f", "u", "l", " ">>

DataStrings == StringsUpTo(DataAlphabet, MaxDataLen) \cup {BoomData, CarefulData}

FormatLevels == {ERROR, <<"E", "r", "r", "o", "r">>, WARNING,
                 <<"w", "a", "r", "n", "i", "n", "g">>, DEBUG, INFO,
                 <<"T", "R", "A", "C", "E">>}

\* stands for a key the dict does not hold
Absent == <<"ABSENT">>

\* the dict with the given level and data, a key left out when Absent
MkRecord(l, t) ==
    [k \in {x \in {"level", "data"} : (x = "level" /\ l # Absent) \/ (x = "data" /\ t # Absent)}
        |-> IF k = "level" THEN l ELSE t]

InitFormat ==
    /\ Idle
    /\ \E l \in FormatLevels \cup {Absent}, t \in DataStrings \cup {Absent} :
          buffer = <<MkRecord(l, t)>>
    /\ argLimit = <<>>
    /\ log_limit = 1

FormatLog ==
    /\ cmd = "none"
    /\ cmd' = "_format_log"
    /\ formatted' = <<_format_log(buffer[1])>>
    /\ UNCHANGED <<style, phase, log_limit, buffer, argLevel, argLimit, argKeyword,
                   getFailed, raw, filtered, selected, markup, renderCalls,
                   renderOutcome, replies, raised>>

NextFormat == FormatLog

SpecFormat == InitFormat /\ [][NextFormat]_vars

(***************************************************************************)
(* Properties of _format_log (checked under SpecFormat).                   *)
(***************************************************************************)
\* s[a..b] is one colour escape sequence: ESC [ params m
IsAnsiSeg(s, a, b) ==
    /\ b >= a + 2 /\ b <= Len(s)
    /\ s[a] = ESC /\ s[a + 1] = "[" /\ s[b] = "m"
    /\ \A k \in (a + 2)..(b - 1) : s[k] \in Digits \cup {";"}

\* the positions of s that lie in no colour escape sequence
KeptPositions(s) ==
    {i \in 1..Len(s) : ~\E a \in 1..i : \E b \in i..Len(s) : IsAnsiSeg(s, a, b)}

\* the characters of s at the positions of P, in order
Pick(s, P) ==
    [k \in 1..Cardinality(P) |->
        s[CHOOSE i \in P : Cardinality({j \in P : j <= i}) = k]]

\* t is s without its trailing whitespace
IsRStripOf(t, s) ==
    /\ Len(t) <= Len(s) /\ t = SubSeq(s, 1, Len(t))
    /\ (Len(t) > 0 => t[Len(t)] \notin Whitespace)
    /\ \A k \in (Len(t) + 1)..Len(s) : s[k] \in Whitespace

\* equal up to the case of the ASCII letters
EqIgnoreCase(a, b) ==
    /\ Len(a) = Len(b)
    /\ \A i \in 1..Len(a) :
          \/ a[i] = b[i]
          \/ \E k \in 1..26 : {a[i], b[i]} = {LowerLetters[k], UpperLetters[k]}

\* C9: _format_log picks the markup from the level compared
\* case-insensitively: ERROR fences the cleaned text, WARNING puts it in
\* bold markers, DEBUG returns it unchanged, any other level (INFO,
\* unrecognized, or no level at all) prefixes it with "> "; the cleaned text
\* is the data with every colour escape sequence removed and trailing
\* whitespace stripped; a result exists for every record.
C9_Format ==
    (cmd = "_format_log") =>
        LET log  == buffer[1]
            data == IF "data" \in DOMAIN log THEN log.data ELSE <<>>
            bare == Pick(data, KeptPositions(data))
        IN  /\ Len(formatted) = 1
            /\ \E text \in {SubSeq(bare, 1, n) : n \in 0..Len(bare)} :
                  /\ IsRStripOf(text, bare)
                  /\ formatted[1] =
                        IF "level" \notin DOMAIN log THEN <<">", " ">> \o text
                        ELSE IF EqIgnoreCase(log.level, ERROR)
                             THEN <<BQ, BQ, BQ, "\n">> \o text \o <<"\n", BQ, BQ, BQ>>
                        ELSE IF EqIgnoreCase(log.level, WARNING)
                             THEN <<"*", "*">> \o text \o <<"*", "*">>
                        ELSE IF EqIgnoreCase(log.level, DEBUG) THEN text
                        ELSE <<">", " ">> \o text

C9_Witness ==
    /\ cmd = "_format_log"
    /\ buffer = <<[level |-> <<"E", "r", "r", "o", "r">>, data |-> BoomData]>>
    /\ formatted = <<(<<BQ, BQ, BQ, "\n", "b", "o", "o", "m", "\n", BQ, BQ, BQ>>)>>

(***************************************************************************)
(* LogLevel, _safe_get_logs, _filter_logs_by_level, _t2i                   *)
(***************************************************************************)
\* the values of the LogLevel members, in declaration order
LevelValues == <<ALL, DEBUG, INFO, WARNING, ERROR>>

\* Python's None
None == <<"NONE">>

\* the input is compared as it is written, without upper()
FromInputCaseSensitive(value) ==
    IF Len(value) = 0 THEN ALL
    ELSE IF \E i \in 1..Len(LevelValues) : LevelValues[i] = value
         THEN value
         ELSE None

\* LogLevel.from_input: the member (named by its value), or None
from_input(value) ==
    IF Len(value) = 0 THEN ALL
    ELSE LET v == Upper(value)
         IN  IF \E i \in 1..Len(LevelValues) : LevelValues[i] = v
             THEN LevelValues[CHOOSE i \in 1..Len(LevelValues) : LevelValues[i] = v]
             ELSE None

\* a failure of get_logs() that serves the buffer all the same
SafeGetLogsStale(logs, fails) == logs

\* _safe_get_logs: the host's logs, or [] when get_logs() raises
_safe_get_logs(logs, fails) == IF fails THEN <<>> ELSE logs

\* the record's level is compared case-insensitively
FilterIgnoreCase(logs, level) ==
    IF level = ALL THEN logs
    ELSE LET Keep(log) == Upper(Get(log, "level", None)) = level
         IN  SelectSeq(logs, Keep)

_filter_logs_by_level(logs, level) ==
    IF level = ALL THEN logs
    ELSE LET Keep(log) == Get(log, "level", None) = level
         IN  SelectSeq(logs, Keep)

\* the slice is taken on the raw logs and the level filter applied after it
SelectSliceFirst(logs, level, limit, default_limit) ==
    _filter_logs_by_level(_slice_logs(logs, limit, default_limit), level)

\* on_log, lines 156-157: filter by level, then slice
SelectLogs(logs, level, limit, default_limit) ==
    _slice_logs(_filter_logs_by_level(logs, level), limit, default_limit)

\* [self._format_log(log) for log in logs]
FormatAll(logs) == [i \in 1..Len(logs) |-> _format_log(logs[i])]

\* "\n".join(lines)
RECURSIVE JoinLines(_)
JoinLines(lines) ==
    IF Len(lines) = 0 THEN <<>>
    ELSE IF Len(lines) = 1 THEN lines[1]
    ELSE lines[1] \o <<"\n">> \o JoinLines(Tail(lines))

\* needle in hay
Contains(hay, needle) ==
    \E i \in 0..(Len(hay) - Len(needle)) : SubSeq(hay, i + 1, i + Len(needle)) = needle

\* the keyword is looked up in the data as it is written, without lower()
SearchCaseSensitive(logs, keyword) ==
    LET Match(log) == Contains(Get(log, "data", <<>>), keyword)
    IN  SelectSeq(logs, Match)

\* on_log_search, lines 173-174
SearchLogs(logs, keyword) ==
    LET keyword_lower == Lower(keyword)
        Match(log) == Contains(Lower(Get(log, "data", <<>>)), keyword_lower)
    IN  SelectSeq(logs, Match)

\* a _t2i that falls back to a reply when the style is not loaded
T2iLenient(st, renderOk) == IF renderOk THEN "ok" ELSE "failed"

\* _t2i: raises when the style is unset or the render fails, else an image
_t2i(st, renderOk) ==
    IF st = "unset" THEN "uninitialized"
    ELSE IF renderOk THEN "ok" ELSE "failed"

T2iRaised(outcome) ==
    IF outcome = "uninitialized" THEN "RuntimeError"
    ELSE IF outcome = "failed" THEN "RenderError"
    ELSE "none"

(***************************************************************************)
(* Inputs of the command model.                                            *)
(***************************************************************************)
FailData == <<"F", "a", "i", "l", " ">>

DbgData == <<"d", "b", "g", " ", "F", "A", "I", "L">>

RecordKinds ==
    { [level |-> ERROR, data |-> BoomData],
      [level |-> <<"e", "r", "r", "o", "r">>, data |-> FailData],
      [data |-> DbgData],
      [level |-> DEBUG] }

LevelArgs ==
    { <<>>, <<"a", "l", "l">>, ERROR, <<"e", "r", "r", "o", "r">>,
      <<"W", "a", "r", "n", "i", "n", "g">>, <<"f", "a", "t", "a", "l">> }

LimitArgs == { <<>>, <<"0">>, <<"1">>, <<"2", "-">>, <<"1", "-", "2">> }

KeywordArgs ==
    { <<>>, <<"f", "a", "i", "l">>, <<"F", "A", "I", "L">>, <<"[", "3">>,
      <<"b", "o", "o", "m">>, <<"z", "z">> }

(***************************************************************************)
(* The plugin: lifecycle and command handlers.                             *)
(***************************************************************************)
Init ==
    /\ Idle
    /\ buffer = <<>>
    /\ argLimit = <<>>
    /\ log_limit \in 1..MaxLogLimit

requestVars == <<cmd, argLevel, argLimit, argKeyword, getFailed, raw, filtered,
                 selected, formatted, markup, renderCalls, renderOutcome, replies,
                 raised>>

\* initialize(): the style is loaded, or the failure is logged and swallowed
initialize ==
    /\ phase = "constructed"
    /\ phase' = "ready"
    /\ \E loaded \in BOOLEAN : style' = IF loaded THEN "loaded" ELSE "unset"
    /\ UNCHANGED <<log_limit, buffer, requestVars>>

\* the host records a log line.  A handler reads the buffer once, when it
\* starts, so a line logged while a request is served changes nothing for
\* it: lines are added between requests.
HostLog ==
    /\ cmd = "none"
    /\ Len(buffer) < MaxLogs
    /\ \E r \in RecordKinds : buffer' = Append(buffer, r)
    /\ UNCHANGED <<style, phase, log_limit, requestVars>>

\* the tail shared by both handlers: format, render, reply with the image
RenderAndReply(logs, renderOk) ==
    LET outcome == _t2i(style, renderOk)
    IN  /\ formatted' = FormatAll(logs)
        /\ markup' = JoinLines(FormatAll(logs))
        /\ renderCalls' = 1
        /\ renderOutcome' = outcome
        /\ raised' = T2iRaised(outcome)
        /\ replies' = IF outcome = "ok" THEN <<"image">> ELSE <<>>

NoRender(reply) ==
    /\ formatted' = <<>>
    /\ markup' = <<>>
    /\ renderCalls' = 0
    /\ renderOutcome' = "none"
    /\ raised' = "none"
    /\ replies' = <<reply>>

\* the log command
on_log(level, limit, fails, renderOk) ==
    /\ phase = "ready" /\ cmd = "none"
    /\ cmd' = "log"
    /\ argLevel' = level /\ argLimit' = limit /\ argKeyword' = <<>>
    /\ getFailed' = fails
    /\ LET logs      == _safe_get_logs(buffer, fails)
           log_level == from_input(level)
       IN  /\ raw' = logs
           /\ IF log_level = None
              THEN /\ filtered' = <<>> /\ selected' = <<>>
                   /\ NoRender("plain:levels")
              ELSE LET byLevel == _filter_logs_by_level(logs, log_level)
                       sliced  == SelectLogs(logs, log_level, limit, log_limit)
                   IN  /\ filtered' = byLevel
                       /\ selected' = sliced
                       /\ IF sliced = <<>>
                          THEN NoRender("plain:no_logs")
                          ELSE RenderAndReply(sliced, renderOk)
    /\ UNCHANGED <<style, phase, log_limit, buffer>>

\* the logfind command
on_log_search(keyword, fails, renderOk) ==
    /\ phase = "ready" /\ cmd = "none"
    /\ cmd' = "logfind"
    /\ argKeyword' = keyword /\ argLevel' = <<>> /\ argLimit' = <<>>
    /\ getFailed' = fails
    /\ LET logs    == _safe_get_logs(buffer, fails)
           matched == SearchLogs(logs, keyword)
       IN  /\ raw' = logs
           /\ filtered' = <<>>
           /\ selected' = matched
           /\ IF matched = <<>>
              THEN NoRender("plain:not_found")
              ELSE RenderAndReply(matched, renderOk)
    /\ UNCHANGED <<style, phase, log_limit, buffer>>

OnLog ==
    \E level \in LevelArgs, limit \in LimitArgs, fails \in BOOLEAN, renderOk \in BOOLEAN :
        on_log(level, limit, fails, renderOk)

OnLogSearch ==
    \E keyword \in KeywordArgs, fails \in BOOLEAN, renderOk \in BOOLEAN :
        on_log_search(keyword, fails, renderOk)

\* the handler has returned (or raised): its request-scoped data is dropped
RequestDone ==
    /\ cmd \in {"log", "logfind"}
    /\ cmd' = "none"
    /\ argLevel' = <<>> /\ argLimit' = <<>> /\ argKeyword' = <<>>
    /\ getFailed' = FALSE
    /\ raw' = <<>> /\ filtered' = <<>> /\ selected' = <<>> /\ formatted' = <<>>
    /\ markup' = <<>> /\ renderCalls' = 0 /\ renderOutcome' = "none"
    /\ replies' = <<>> /\ raised' = "none"
    /\ UNCHANGED <<style, phase, log_limit, buffer>>

Next == initialize \/ HostLog \/ OnLog \/ OnLogSearch \/ RequestDone

Spec == Init /\ [][Next]_vars

(***************************************************************************)
(* Inputs of the _filter_logs_by_level study.                              *)
(***************************************************************************)
FilterRecordLevels ==
    {DEBUG, INFO, WARNING, ERROR, <<"e", "r", "r", "o", "r">>, <<"I", "n", "f", "o">>, Absent}

FilterRecords == {MkRecord(l, <<"a">>) : l \in FilterRecordLevels}

InitFilter ==
    /\ Idle
    /\ buffer \in UNION {[1..n -> FilterRecords] : n \in 0..MaxFilterLen}
    /\ argLimit = <<>>
    /\ log_limit = 1

\* _filter_logs_by_level applied to the sequence with one LogLevel member
FilterLogs ==
    /\ cmd = "none"
    /\ cmd' = "_filter_logs_by_level"
    /\ \E i \in 1..Len(LevelValues) :
          /\ argLevel' = LevelValues[i]
          /\ filtered' = _filter_logs_by_level(buffer, LevelValues[i])
    /\ UNCHANGED <<style, phase, log_limit, buffer, argLimit, argKeyword,
                   getFailed, raw, selected, formatted, markup, renderCalls,
                   renderOutcome, replies, raised>>

NextFilter == FilterLogs

SpecFilter == InitFilter /\ [][NextFilter]_vars

(***************************************************************************)
(* Properties of _filter_logs_by_level (checked under SpecFilter).         *)
(***************************************************************************)
\* C6: with ALL the filter returns its input unchanged (the empty sequence
\* included); with L in {DEBUG, INFO, WARNING, ERROR} it returns exactly the
\* records whose level field equals L's name verbatim, in their original
\* order (a record with level "error" is not selected by ERROR).
C6_Filter ==
    (cmd = "_filter_logs_by_level") =>
        IF argLevel = <<"A", "L", "L">>
        THEN filtered = buffer
        ELSE filtered =
               Pick(buffer, {i \in 1..Len(buffer) :
                               "level" \in DOMAIN buffer[i] /\ buffer[i].level = argLevel})

C6_Witness ==
    /\ cmd = "_filter_logs_by_level"
    /\ argLevel = <<"E", "R", "R", "O", "R">>
    /\ buffer = <<[level |-> <<"e", "r", "r", "o", "r">>, data |-> <<"a">>],
                  [level |-> <<"E", "R", "R", "O", "R">>, data |-> <<"a">>],
                  [data |-> <<"a">>]>>
    /\ filtered = <<[level |-> <<"E", "R", "R", "O", "R">>, data |-> <<"a">>]>>

(***************************************************************************)
(* Properties of the command handlers (checked under Spec).                *)
(***************************************************************************)
LevelNames == {<<"A", "L", "L">>, <<"D", "E", "B", "U", "G">>, <<"I", "N", "F", "O">>,
               <<"W", "A", "R", "N", "I", "N", "G">>, <<"E", "R", "R", "O", "R">>}

\* the level argument is empty or, uppercased, one of the five names
ValidLevelArg(a) == Len(a) = 0 \/ \E n \in LevelNames : EqIgnoreCase(a, n)

\* the name a valid level argument stands for
LevelOfArg(a) ==
    IF Len(a) = 0 THEN <<"A", "L", "L">> ELSE CHOOSE n \in LevelNames : EqIgnoreCase(a, n)

Handled == cmd \in {"log", "logfind"}

\* C1: a log command replies exactly once and the reply is determined: an
\* invalid level gives the plain-text list of allowed levels and neither
\* formatting nor rendering happens; otherwise an empty selection gives the
\* plain-text "no logs" message without rendering; otherwise render is
\* invoked exactly once and, when it succeeds, the reply is one image.
C1_LogReply ==
    (cmd = "log") =>
        IF ~ValidLevelArg(argLevel)
        THEN /\ replies = <<"plain:levels">>
             /\ formatted = <<>> /\ markup = <<>> /\ renderCalls = 0
             /\ raised = "none"
        ELSE IF selected = <<>>
        THEN /\ replies = <<"plain:no_logs">>
             /\ renderCalls = 0 /\ raised = "none"
        ELSE /\ renderCalls = 1
             /\ renderOutcome = "ok" => (replies = <<"image">> /\ raised = "none")

C1_Witness ==
    /\ cmd = "log" /\ argLevel = <<"e", "r", "r", "o", "r">> /\ argLimit = <<>>
    /\ Len(selected) = 2
    /\ renderCalls = 1 /\ renderOutcome = "ok" /\ replies = <<"image">>

\* the lengths of the first k lines, each counted with its separator
RECURSIVE LineOffset(_, _)
LineOffset(lines, k) ==
    IF k = 0 THEN 0 ELSE LineOffset(lines, k - 1) + Len(lines[k]) + 1

\* text is the lines in order with one newline between neighbours
IsJoined(text, lines) ==
    /\ Len(text) = IF Len(lines) = 0 THEN 0 ELSE LineOffset(lines, Len(lines)) - 1
    /\ \A i \in 1..Len(lines) :
          LET off == LineOffset(lines, i - 1)
          IN  /\ SubSeq(text, off + 1, off + Len(lines[i])) = lines[i]
              /\ i < Len(lines) => text[off + Len(lines[i]) + 1] = "\n"

\* C5: in the log command the level filter comes before the slice: the
\* records formatted are slice(filterByLevel(raw, level), limit), so counts
\* and range indices are positions in the level-filtered subsequence, and
\* the markup given to the renderer is their formatted lines, in the same
\* order, joined by newlines.
C5_FilterThenSlice ==
    (cmd = "log" /\ ValidLevelArg(argLevel)) =>
        LET name    == LevelOfArg(argLevel)
            byLevel == IF name = <<"A", "L", "L">> THEN raw
                       ELSE Pick(raw, {i \in 1..Len(raw) :
                                         "level" \in DOMAIN raw[i] /\ raw[i].level = name})
            sel     == _slice_logs(byLevel, argLimit, log_limit)
        IN  /\ selected = sel
            /\ sel # <<>> =>
                  /\ Len(formatted) = Len(sel)
                  /\ \A i \in 1..Len(sel) : formatted[i] = _format_log(sel[i])
                  /\ IsJoined(markup, formatted)

C5_Witness ==
    /\ cmd = "log" /\ argLevel = <<"E", "R", "R", "O", "R">> /\ argLimit = <<"1">>
    /\ raw = <<[level |-> <<"E", "R", "R", "O", "R">>, data |-> BoomData],
               [level |-> <<"E", "R", "R", "O", "R">>, data |-> BoomData],
               [data |-> DbgData]>>
    /\ selected = <<[level |-> <<"E", "R", "R", "O", "R">>, data |-> BoomData]>>
    /\ markup = <<BQ, BQ, BQ, "\n", "b", "o", "o", "m", "\n", BQ, BQ, BQ>>

\* C7 as stated: whenever the log accessor fails during log or logfind, with
\* any arguments, nothing is propagated, the records are the empty sequence
\* and the user receives the plain-text "no logs" message.
C7_NoLogsOnFailure ==
    (Handled /\ getFailed) =>
        (raised = "none" /\ raw = <<>> /\ replies = <<"plain:no_logs">>)

\* C7 amended: whenever the log accessor fails the failure is not
\* propagated, the records are the empty sequence, nothing is rendered and
\* the one reply is plain text: "no logs" for log with a valid level, the
\* list of allowed levels for log with an invalid level, "not found" for
\* logfind.
C7_FailureRecovered ==
    (Handled /\ getFailed) =>
        /\ raised = "none" /\ raw = <<>> /\ renderCalls = 0
        /\ replies = << IF cmd = "logfind" THEN "plain:not_found"
                        ELSE IF ValidLevelArg(argLevel) THEN "plain:no_logs"
                        ELSE "plain:levels" >>

C7_Witness ==
    /\ cmd = "log" /\ getFailed /\ Len(buffer) = 2 /\ argLevel = <<>>
    /\ raw = <<>> /\ replies = <<"plain:no_logs">>

\* C8 as stated: with the render backend not initialized, or the render
\* call failing, every log or logfind request ends in an exception and
\* emits no reply at all.
C8_AlwaysException ==
    (Handled /\ (style = "unset" \/ renderOutcome = "failed")) =>
        (raised # "none" /\ replies = <<>>)

\* C8 amended: with the render backend not initialized, or the render call
\* failing, every log or logfind request that reaches the render step ends
\* in an exception and emits no reply at all; a request that never reaches
\* it (invalid level, empty selection, no match) raises nothing and gets its
\* one plain-text reply whatever the state of the backend.
C8_RenderFailure ==
    Handled =>
        /\ (renderCalls = 1 /\ (style = "unset" \/ renderOutcome = "failed")) =>
              (raised # "none" /\ replies = <<>>)
        /\ (renderCalls = 1 /\ style = "unset") => raised = "RuntimeError"
        /\ renderCalls = 0 =>
              /\ raised = "none"
              /\ replies \in {<<"plain:levels">>, <<"plain:no_logs">>, <<"plain:not_found">>}

C8_Witness ==
    /\ cmd = "logfind" /\ style = "unset" /\ phase = "ready" /\ selected # <<>>
    /\ renderCalls = 1 /\ raised = "RuntimeError" /\ replies = <<>>

\* the keyword occurs in the data, letters compared without their case
OccursIgnoringCase(keyword, data) ==
    \E off \in 0..(Len(data) - Len(keyword)) :
        EqIgnoreCase(SubSeq(data, off + 1, off + Len(keyword)), keyword)

\* C10: logfind selects exactly the records whose raw data (colour
\* sequences still in it) contains the keyword as a case-insensitive
\* substring, in their original order and without deduplication; the empty
\* keyword selects every record; when nothing matches the only reply is the
\* plain-text "not found" message and nothing is rendered.
C10_Search ==
    (cmd = "logfind") =>
        /\ selected =
              Pick(raw, {i \in 1..Len(raw) :
                           OccursIgnoringCase(argKeyword,
                               IF "data" \in DOMAIN raw[i] THEN raw[i].data ELSE <<>>)})
        /\ argKeyword = <<>> => selected = raw
        /\ selected = <<>> =>
              /\ replies = <<"plain:not_found">>
              /\ renderCalls = 0 /\ formatted = <<>> /\ raised = "none"

C10_Witness ==
    /\ cmd = "logfind" /\ argKeyword = <<"f", "a", "i", "l">>
    /\ raw = <<[data |-> DbgData],
               [level |-> <<"e", "r", "r", "o", "r">>, data |-> FailData],
               [data |-> DbgData]>>
    /\ selected = raw

====
